---- MODULE Spec2Model ----
(***************************************************************************)
(* Model of drivers/gpu/drm/bridge/synopsys/dw-hdmi-qp.c: the DDC/I2C      *)
(* transfer engine (dw_hdmi_qp_i2c_xfer, _read, _write and the hard        *)
(* interrupt handler) and the bridge power lifecycle (update_power,        *)
(* setup, atomic_enable/disable, connector force, probe).                  *)
(*                                                                         *)
(* The register header dw-hdmi-qp.h is not part of the sources, so         *)
(* registers are modelled by field (one record field per masked field the  *)
(* driver writes) and interrupt bits by name, not by bit position.         *)
(***************************************************************************)
EXTENDS Integers, Sequences, FiniteSets, TLC

(* ------------------------------ bounds -------------------------------- *)
NThreads == 2
MaxCalls == 2
MaxMsgs == 2
MaxLen == 2
SinkBase == 16
ScnLen == 8
MaxPosted == 2

(* -------------------------- program constants ------------------------- *)
DDC_CI_ADDR == 55
DDC_SEGMENT_ADDR == 48
DDC_ADDR == 80
EOPNOTSUPP == 95
EAGAIN == 11
EIO == 5
HDMI14_MAX_TMDSCLK == 340000000
AviBufSize == 17

Threads == 1..NThreads
Addrs == {DDC_ADDR, DDC_SEGMENT_ADDR, DDC_CI_ADDR}

\* u8 arithmetic of i2c->slave_reg
U8(x) == x % 256

\* interrupt bits of MAINUNIT_1_INT_STATUS / _MASK_N / _CLEAR
I2CM_OP_DONE == "op_done"
I2CM_READ_REQUEST == "read_request"
I2CM_NACK_RCVD == "nack_rcvd"
\* any other bit of MAINUNIT_1_INT_STATUS
OtherIrq == "other"

\* irqreturn_t
IRQ_NONE == "IRQ_NONE"
IRQ_HANDLED == "IRQ_HANDLED"

(* ------------------------------ inputs -------------------------------- *)
\* struct i2c_msg: addr, flags & I2C_M_RD, buf (len is Len(buf)).  The
\* buffer of a read message is handed in zeroed; the payload of a write of
\* n bytes is 255, 0, 1, ...: pairwise distinct bytes whose first, taken as
\* a register address, makes slave_reg++ wrap around.
WritePayload(n) == [j \in 1..n |-> U8(254 + j)]
ReadBuffer(n) == [j \in 1..n |-> 0]
I2cMsg == {[addr |-> a, rd |-> TRUE, buf |-> ReadBuffer(n)] :
             a \in Addrs, n \in 0..MaxLen}
          \cup {[addr |-> a, rd |-> FALSE, buf |-> WritePayload(n)] :
                  a \in Addrs, n \in 0..MaxLen}
MsgSeqs == UNION {[1..n -> I2cMsg] : n \in 1..MaxMsgs}

\* The sink: a device whose register r reads as an incrementing byte.
SinkReg(r) == U8(SinkBase + r)

VARIABLES
  \* per calling thread of dw_hdmi_qp_i2c_xfer: position, arguments,
  \* locals, and the result and return statement of its last call
  pc, msgs, i, len, bp, ret, site,
  \* struct dw_hdmi_i2c
  lock, cmp, stat, slave_reg, is_regaddr, is_segment,
  \* the controller: registers, raw interrupt status, the byte operation
  \* the I2C master is executing
  regs, status, hwop,
  \* history of the call in progress: the byte operations it programmed,
  \* the message that set the register address, the operation count at a
  \* timeout, the values written to I2CM_CONTROL0, a nack snapshot stored
  \* while it waited
  log, first, tmo, ctl0w, nacked,
  \* the number of calls made so far
  calls,
  \* the lifecycle: whether dw_hdmi_qp_probe has run; the fields of struct
  \* dw_hdmi that dw_hdmi_qp_update_power reads and writes; the link
  \* configuration dw_hdmi_qp_setup leaves in the controller and at the
  \* sink; the outcome of the last dw_hdmi_qp_update_power
  stage, hdmi, link, last,
  \* the AVI infoframe: the inputs of the last hdmi_config_AVI (or the
  \* buffer handed to hdmi_infoframe_set_checksum), the buffer it built and
  \* the packet registers PKT_AVI_CONTENTS0 and PKT_AVI_CONTENTS1..4
  avi,
  \* the last invocation of dw_hdmi_qp_main_hardirq: the raw status it
  \* read, what it wrote to MAINUNIT_1_INT_CLEAR, the completions it
  \* posted, the value it returned
  irq

tvars == <<pc, msgs, i, len, bp, ret, site>>
ivars == <<lock, cmp, stat, slave_reg, is_regaddr, is_segment>>
hvars == <<regs, status, hwop>>
gvars == <<log, first, tmo, ctl0w, nacked>>
pvars == <<stage, hdmi, link, last, avi>>
vars == <<tvars, ivars, hvars, gvars, calls, pvars, irq>>

(* ------------------------- the AVI infoframe -------------------------- *)
\* Byte buffers a, a + b, a + 2b, ... (mod 256) of n bytes, and buffers
\* whose bytes other than byte 3 are non-zero and sum to 0 modulo 256.
Buf(n, a, b) == [j \in 1..n |-> U8(a + b * (j - 1))]
Seeds == {0, 1, 85, 255}
Steps == {0, 1, 16, 255}
ZeroSumBuf(n, x) == [j \in 1..n |-> IF j <= 2 THEN 128
                                    ELSE IF j = 4 THEN x ELSE 0]
CsumSizes == {4, 5, AviBufSize}
CsumBufs == {Buf(n, a, b) : n \in CsumSizes, a \in Seeds, b \in Steps}
            \cup {ZeroSumBuf(n, x) : n \in CsumSizes, x \in {0, 7}}

\* lines 245-247: u8 csum = 0; for (...) csum += ptr[i]
RECURSIVE SumU8(_, _)
SumU8(ptr, n) == IF n = 0 THEN 0 ELSE U8(SumU8(ptr, n - 1) + ptr[n])

hdmi_infoframe_set_checksum_keep(ptr, size) ==
  [ptr EXCEPT ![4] = U8(256 - SumU8(ptr, size))]

\* lines 240-251; ptr[3] is element 4 of the sequence
hdmi_infoframe_set_checksum(ptr, size) ==
  LET zeroed == [ptr EXCEPT ![4] = 0]
  IN [zeroed EXCEPT ![4] = U8(256 - SumU8(zeroed, size))]

\* What hdmi_config_AVI works on: hdmi->vic, and of the frame that
\* dw_hdmi_prep_avi_infoframe built its colorspace, version and length and
\* the 17 bytes hdmi_avi_infoframe_pack_only packed it into.
Vics == {1, 16, 127, 128, 129, 193, 255}
AviInputs == [vic : Vics, colorspace : 0..3, version : {2}, length : {13},
              packed : {Buf(AviBufSize, a, b) : a \in Seeds, b \in Steps}]
NoAviInput == [vic |-> 0, colorspace |-> 0, version |-> 0, length |-> 0,
               packed |-> <<>>]
NoAvi == [stage |-> "none", in |-> NoAviInput, buf |-> <<>>,
          contents0 |-> 0, contents1 |-> <<>>]

AviWordShort(buf, w) ==
  [k \in 1..4 |-> IF w * 4 + (k - 1) >= 13 THEN 0 ELSE buf[w * 4 + k + 3]]

\* lines 281-291: the word written to PKT_AVI_CONTENTS1 + w * 4, as its
\* four bytes from bits 7:0 to bits 31:24 (buf[w * 4 + j + 3] << (8 * j))
AviWord(buf, w) ==
  [k \in 1..4 |-> IF w * 4 + (k - 1) >= 14 THEN 0 ELSE buf[w * 4 + k + 3]]

hdmi_config_AVI_gt(in) ==
  LET rewrite == in.vic > 128
      version == IF rewrite THEN 3 ELSE in.version
      buf == IF rewrite
             THEN hdmi_infoframe_set_checksum(
                    [in.packed EXCEPT ![2] = 3,
                                      ![5] = (@ % 32)
                                             + (in.colorspace % 8) * 32,
                                      ![8] = U8(in.vic)],
                    AviBufSize)
             ELSE in.packed
  IN [stage |-> "packed", in |-> in, buf |-> buf,
      contents0 |-> version * 256 + in.length * 65536,
      contents1 |-> [w \in 1..4 |-> AviWord(buf, w - 1)]]

\* lines 253-303: the buffer as packed, rewritten at lines 266-273 when
\* vic >= 128, and the packet registers written at lines 281-291
hdmi_config_AVI(in) ==
  LET rewrite == in.vic >= 128
      version == IF rewrite THEN 3 ELSE in.version
      buf == IF rewrite
             THEN hdmi_infoframe_set_checksum(
                    [in.packed EXCEPT ![2] = 3,
                                      ![5] = (@ % 32)
                                             + (in.colorspace % 8) * 32,
                                      ![8] = U8(in.vic)],
                    AviBufSize)
             ELSE in.packed
  IN [stage |-> "packed", in |-> in, buf |-> buf,
      contents0 |-> version * 256 + in.length * 65536,
      contents1 |-> [w \in 1..4 |-> AviWord(buf, w - 1)]]

(* ------------------------- lifecycle state ---------------------------- *)
\* enum drm_connector_force, the values of connector->force
DRM_FORCE_UNSPECIFIED == "unspecified"
DRM_FORCE_OFF == "off"
DRM_FORCE_ON == "on"
DRM_FORCE_ON_DIGITAL == "on_digital"
Forces == {DRM_FORCE_UNSPECIFIED, DRM_FORCE_OFF, DRM_FORCE_ON,
           DRM_FORCE_ON_DIGITAL}

\* hdmi->curr_conn: NULL or the connector of the encoder
NULL == "null"
Connector == "connector"

\* devm_kzalloc (line 644): struct dw_hdmi zero-filled
Zeroed == [disabled |-> FALSE, rxsense |-> FALSE,
           force |-> DRM_FORCE_UNSPECIFIED, curr_conn |-> NULL,
           bridge_is_on |-> FALSE, phy_enabled |-> FALSE]

ProbedStayDisabled(locked) ==
  [Zeroed EXCEPT !.disabled = TRUE, !.rxsense = TRUE]

\* dw_hdmi_qp_probe, lines 649-650 and 700-704: disabled and rxsense are
\* set, then disabled is cleared if CMU_STATUS reports the display clock
\* locked
Probed(locked) == [Zeroed EXCEPT !.disabled = ~locked, !.rxsense = TRUE]

\* The link configuration before any setup: LINK_CONFIG0.OPMODE_DVI,
\* HDCP2LOGIC_CONFIG0.HDCP2_BYPASS, SCRAMB_CONFIG0, and what was last asked
\* of the sink over SCDC (-1: nothing yet); and whether CMU_STATUS
\* reports the display clock locked.
ResetLink == [opmode_dvi |-> 0, hdcp2_bypass |-> 0, scramb |-> 0,
              sink_ratio |-> -1, sink_scrambling |-> -1,
              display_clk_locked |-> FALSE]

\* What dw_hdmi_qp_setup reads besides its arguments, before any setup
NoInput == [phy_ok |-> TRUE, sink_is_hdmi |-> FALSE,
            mtmdsclock |-> HDMI14_MAX_TMDSCLK, scdc |-> FALSE,
            avi |-> NoAviInput]

\* The outcome of an update_power: whether setup ran and how it ended, the
\* bridge state it found, the connector and the inputs setup ran with.
NoUpdate == [setup |-> "none", was_on |-> FALSE, conn |-> NULL,
             in |-> NoInput]

NoOp == [kind |-> "none", reg |-> 0, data |-> 0]

\* No invocation of the handler yet.
NoIrq == [raw |-> {}, clear |-> {}, posted |-> 0, ret |-> "none"]

\* dw_hdmi_qp_init_hw and dw_hdmi_qp_i2c_init: DONE and NACK masked, their
\* latches cleared.  The fields of I2CM_INTERFACE_CONTROL0 that start a byte
\* operation (ADDR, WR_MASK) and WRDATA are held by hwop.
InitRegs == [mask_n |-> {}, slvaddr |-> 0, rddata |-> 0,
             seg_addr |-> 0, seg_ptr |-> 0]

Init ==
  /\ pc = [t \in Threads |-> "idle"]
  /\ msgs = [t \in Threads |-> <<>>]
  /\ i = [t \in Threads |-> 0]
  /\ len = [t \in Threads |-> 0]
  /\ bp = [t \in Threads |-> 0]
  /\ ret = [t \in Threads |-> 0]
  /\ site = [t \in Threads |-> "none"]
  /\ lock = 0
  /\ cmp = 0
  /\ stat = {}
  /\ slave_reg = 0
  /\ is_regaddr = FALSE
  /\ is_segment = FALSE
  /\ regs = InitRegs
  /\ status = {}
  /\ hwop = NoOp
  /\ log = [t \in Threads |-> <<>>]
  /\ first = [t \in Threads |-> 0]
  /\ tmo = [t \in Threads |-> 0]
  /\ ctl0w = [t \in Threads |-> <<>>]
  /\ nacked = [t \in Threads |-> FALSE]
  /\ calls = 0
  /\ stage = "probed"
  /\ hdmi = Probed(FALSE)
  /\ link = ResetLink
  /\ last = NoUpdate
  /\ avi = NoAvi
  /\ irq = NoIrq

(* ----------------------- dw_hdmi_qp_i2c_xfer -------------------------- *)
HasZeroLen(m) == \E j \in 1..Len(m) : Len(m[j].buf) = 0

ValidateFirstLen(m) ==
  IF m[1].addr = DDC_CI_ADDR THEN "addr"
  ELSE IF Len(m[1].buf) = 0 THEN "len"
  ELSE "none"

ValidateNoAddr(m) == IF HasZeroLen(m) THEN "len" ELSE "none"

\* lines 155-174: the checks made before the lock is taken; the result names
\* the return statement taken ("none": the call goes on to mutex_lock)
Validate(m) ==
  IF m[1].addr = DDC_CI_ADDR THEN "addr"
  ELSE IF HasZeroLen(m) THEN "len"
  ELSE "none"

IsSegmentMsg(msg) == msg.addr = DDC_SEGMENT_ADDR /\ Len(msg.buf) = 1

\* lines 155-174 for a call with messages m that fail a check: the call
\* returns -EOPNOTSUPP at line 165 or 172, before mutex_lock
Rejected(t, m) ==
  /\ pc[t] = "idle"
  /\ calls < MaxCalls
  /\ Validate(m) # "none"
  /\ ret' = [ret EXCEPT ![t] = -EOPNOTSUPP]
  /\ site' = [site EXCEPT ![t] = Validate(m)]
  /\ calls' = calls + 1
  /\ UNCHANGED <<irq, pvars, pc, msgs, i, len, bp, ivars, hvars, gvars>>

\* The message sequences that pass the checks, and those that return at
\* the given return statement.
Accepted == {m \in MsgSeqs : Validate(m) = "none"}
RejectedAt == [why \in {"addr", "len"} |->
                {m \in MsgSeqs : Validate(m) = why}]

\* A call that returns at the given return statement.
Reject(t, why) ==
  /\ pc[t] = "idle"
  /\ calls < MaxCalls
  /\ RejectedAt[why] # {}
  /\ Rejected(t, CHOOSE m \in RejectedAt[why] : TRUE)

\* lines 155-176: a call whose messages pass the checks arrives at
\* mutex_lock.  Until it owns the lock nothing depends on the messages but
\* that they passed, so they are drawn when the lock is acquired.
Call(t) ==
  /\ pc[t] = "idle"
  /\ calls < MaxCalls
  /\ calls' = calls + 1
  /\ pc' = [pc EXCEPT ![t] = "lock"]
  /\ ret' = [ret EXCEPT ![t] = 0]
  /\ site' = [site EXCEPT ![t] = "none"]
  /\ UNCHANGED <<irq, pvars, msgs, i, len, bp, ivars, hvars, gvars>>

\* line 176: the call owns the lock and goes on with messages m
Acquire(t, m) ==
  /\ Validate(m) = "none"
  /\ lock' = t
  /\ msgs' = [msgs EXCEPT ![t] = m]
  /\ pc' = [pc EXCEPT ![t] = "begin"]
  /\ UNCHANGED <<irq, pvars, calls, i, len, bp, ret, site, cmp, stat, slave_reg,
                 is_regaddr, is_segment, hvars, gvars>>

LockNoWait(t) ==
  /\ pc[t] = "lock"
  /\ \E m \in Accepted : Acquire(t, m)

\* line 176: mutex_lock(&i2c->lock) returns once the mutex is free
Lock(t) ==
  /\ pc[t] = "lock"
  /\ lock = 0
  /\ \E m \in Accepted : Acquire(t, m)

\* lines 184-185: the slave address programmed for the transaction
SlaveAddr(m) == IF IsSegmentMsg(m[1]) THEN DDC_ADDR ELSE m[1].addr

\* lines 178-193: unmute DONE and NACK, program the slave address, reset
\* the register-address and segment flags
Begin(t) ==
  /\ pc[t] = "begin"
  /\ regs' = [regs EXCEPT !.mask_n = @ \cup {I2CM_NACK_RCVD, I2CM_OP_DONE},
                          !.slvaddr = SlaveAddr(msgs[t])]
  /\ is_regaddr' = FALSE
  /\ is_segment' = FALSE
  /\ i' = [i EXCEPT ![t] = 1]
  /\ pc' = [pc EXCEPT ![t] = "msg"]
  /\ UNCHANGED <<irq, pvars, calls, msgs, len, bp, ret, site, lock, cmp, stat, slave_reg,
                 status, hwop, gvars>>

\* line 195: the loop over the messages ends
MsgsDone(t) ==
  /\ pc[t] = "msg"
  /\ i[t] > Len(msgs[t])
  /\ pc' = [pc EXCEPT ![t] = "out"]
  /\ UNCHANGED <<irq, pvars, calls, msgs, i, len, bp, ret, site, ivars, hvars, gvars>>

\* lines 43-47: dw_hdmi_qp_mod is regmap_update_bits(reg, mask, data): the
\* register takes the bits of data that lie inside mask, at their own
\* positions; the caller shifts (lines 78, 125, 187).  The value a field of
\* the given lowest bit and width holds after it was written with data:
FieldOf(data, lo, width) == (data \div (2 ^ lo)) % (2 ^ width)

\* I2CM_SEG_ADDR and I2CM_SEG_PTR are masks of dw-hdmi-qp.h, which is not
\* among the sources: two fields of I2CM_INTERFACE_CONTROL1, a 7 bit slave
\* address and an 8 bit pointer, that do not overlap.  Every placement of
\* the two in the low 16 bits is possible.
Ctl1Layouts ==
  {ly \in [seg_addr_lo : 0..9, seg_ptr_lo : 0..8] :
     \/ ly.seg_ptr_lo >= ly.seg_addr_lo + 7
     \/ ly.seg_addr_lo >= ly.seg_ptr_lo + 8}

\* lines 196-201: a one byte message to the segment address writes
\* DDC_SEGMENT_ADDR under the mask I2CM_SEG_ADDR and the payload byte under
\* the mask I2CM_SEG_PTR, neither shifted; no byte goes over the bus.
\* seg_addr and seg_ptr are the values the two fields then hold.
Segment(t) ==
  /\ pc[t] = "msg"
  /\ i[t] <= Len(msgs[t])
  /\ IsSegmentMsg(msgs[t][i[t]])
  /\ is_segment' = TRUE
  /\ \E ly \in Ctl1Layouts :
       regs' = [regs EXCEPT
                  !.seg_addr = FieldOf(DDC_SEGMENT_ADDR, ly.seg_addr_lo, 7),
                  !.seg_ptr = FieldOf(msgs[t][i[t]].buf[1],
                                      ly.seg_ptr_lo, 8)]
  /\ i' = [i EXCEPT ![t] = @ + 1]
  /\ UNCHANGED <<irq, pvars, calls, pc, msgs, len, bp, ret, site, lock, cmp, stat, slave_reg,
                 is_regaddr, status, hwop, gvars>>

ReadStartNoDefault(t) ==
  /\ pc[t] = "msg"
  /\ i[t] <= Len(msgs[t])
  /\ ~IsSegmentMsg(msgs[t][i[t]])
  /\ msgs[t][i[t]].rd
  /\ slave_reg' = slave_reg
  /\ is_regaddr' = TRUE
  /\ first' = [first EXCEPT ![t] = IF is_regaddr THEN @ ELSE i[t]]
  /\ len' = [len EXCEPT ![t] = Len(msgs[t][i[t]].buf)]
  /\ bp' = [bp EXCEPT ![t] = 0]
  /\ pc' = [pc EXCEPT ![t] = "byte"]
  /\ UNCHANGED <<irq, pvars, calls, msgs, i, ret, site, lock, cmp, stat, is_segment,
                 hvars, log, tmo, ctl0w, nacked>>

\* lines 203-205 and 69-73: dw_hdmi_qp_i2c_read is entered
ReadStart(t) ==
  /\ pc[t] = "msg"
  /\ i[t] <= Len(msgs[t])
  /\ ~IsSegmentMsg(msgs[t][i[t]])
  /\ msgs[t][i[t]].rd
  /\ slave_reg' = IF is_regaddr THEN slave_reg ELSE 0
  /\ is_regaddr' = TRUE
  /\ first' = [first EXCEPT ![t] = IF is_regaddr THEN @ ELSE i[t]]
  /\ len' = [len EXCEPT ![t] = Len(msgs[t][i[t]].buf)]
  /\ bp' = [bp EXCEPT ![t] = 0]
  /\ pc' = [pc EXCEPT ![t] = "byte"]
  /\ UNCHANGED <<irq, pvars, calls, msgs, i, ret, site, lock, cmp, stat, is_segment, hvars,
                 log, tmo, ctl0w, nacked>>

WriteStartKeep(t) ==
  /\ pc[t] = "msg"
  /\ i[t] <= Len(msgs[t])
  /\ ~IsSegmentMsg(msgs[t][i[t]])
  /\ ~msgs[t][i[t]].rd
  /\ slave_reg' = IF is_regaddr THEN slave_reg ELSE msgs[t][i[t]].buf[1]
  /\ is_regaddr' = TRUE
  /\ first' = [first EXCEPT ![t] = IF is_regaddr THEN @ ELSE i[t]]
  /\ len' = [len EXCEPT ![t] = Len(msgs[t][i[t]].buf)]
  /\ bp' = [bp EXCEPT ![t] = 0]
  /\ pc' = [pc EXCEPT ![t] = "byte"]
  /\ UNCHANGED <<irq, pvars, calls, msgs, i, ret, site, lock, cmp, stat, is_segment,
                 hvars, log, tmo, ctl0w, nacked>>

\* lines 206-208 and 113-119: dw_hdmi_qp_i2c_write is entered
WriteStart(t) ==
  /\ pc[t] = "msg"
  /\ i[t] <= Len(msgs[t])
  /\ ~IsSegmentMsg(msgs[t][i[t]])
  /\ ~msgs[t][i[t]].rd
  /\ slave_reg' = IF is_regaddr THEN slave_reg ELSE msgs[t][i[t]].buf[1]
  /\ is_regaddr' = TRUE
  /\ first' = [first EXCEPT ![t] = IF is_regaddr THEN @ ELSE i[t]]
  /\ len' = [len EXCEPT ![t] = IF is_regaddr THEN Len(msgs[t][i[t]].buf)
                                 ELSE Len(msgs[t][i[t]].buf) - 1]
  /\ bp' = [bp EXCEPT ![t] = IF is_regaddr THEN 0 ELSE 1]
  /\ pc' = [pc EXCEPT ![t] = "byte"]
  /\ UNCHANGED <<irq, pvars, calls, msgs, i, ret, site, lock, cmp, stat, is_segment, hvars,
                 log, tmo, ctl0w, nacked>>

\* lines 75/121 with length == 0, 102-104, 147 and 210-212: the message is
\* complete, the loop goes on with the next one
MsgEnd(t) ==
  /\ pc[t] = "byte"
  /\ len[t] = 0
  /\ is_segment' = IF msgs[t][i[t]].rd THEN FALSE ELSE is_segment
  /\ i' = [i EXCEPT ![t] = @ + 1]
  /\ pc' = [pc EXCEPT ![t] = "msg"]
  /\ UNCHANGED <<irq, pvars, calls, msgs, len, bp, ret, site, lock, cmp, stat, slave_reg,
                 is_regaddr, hvars, gvars>>

\* lines 75-76 and 121-122: while (length--) reinit_completion(&i2c->cmp)
Arm(t) ==
  /\ pc[t] = "byte"
  /\ len[t] > 0
  /\ len' = [len EXCEPT ![t] = @ - 1]
  /\ cmp' = 0
  /\ nacked' = [nacked EXCEPT ![t] = FALSE]
  /\ pc' = [pc EXCEPT ![t] = "prog"]
  /\ UNCHANGED <<irq, pvars, calls, msgs, i, bp, ret, site, lock, stat, slave_reg, is_regaddr,
                 is_segment, hvars, log, first, tmo, ctl0w>>

\* The byte operation the next Program step starts: the message and the
\* buffer offset it serves, the register address and, for a write, the data.
NextOp(t) ==
  [m |-> i[t], k |-> bp[t], reg |-> slave_reg, rd |-> msgs[t][i[t]].rd,
   data |-> IF msgs[t][i[t]].rd THEN 0 ELSE msgs[t][i[t]].buf[bp[t] + 1]]

ProgramNoIncrement(t) ==
  /\ pc[t] = "prog"
  /\ hwop' = [kind |-> IF NextOp(t).rd THEN "read" ELSE "write",
              reg |-> NextOp(t).reg, data |-> NextOp(t).data]
  /\ bp' = [bp EXCEPT ![t] = IF NextOp(t).rd THEN @ ELSE @ + 1]
  /\ slave_reg' = slave_reg
  /\ log' = [log EXCEPT ![t] = Append(@, NextOp(t))]
  /\ pc' = [pc EXCEPT ![t] = "wait"]
  /\ UNCHANGED <<irq, pvars, calls, msgs, i, len, ret, site, lock, cmp, stat,
                 is_regaddr, is_segment, regs, status, first, tmo, ctl0w,
                 nacked>>

\* lines 78-82 (read) and 124-128 (write): the data byte (*buf++), the
\* register address (slave_reg++) and the direction are written; the write
\* of the direction starts the byte operation
Program(t) ==
  /\ pc[t] = "prog"
  /\ hwop' = [kind |-> IF NextOp(t).rd THEN "read" ELSE "write",
              reg |-> NextOp(t).reg, data |-> NextOp(t).data]
  /\ bp' = [bp EXCEPT ![t] = IF NextOp(t).rd THEN @ ELSE @ + 1]
  /\ slave_reg' = U8(slave_reg + 1)
  /\ log' = [log EXCEPT ![t] = Append(@, NextOp(t))]
  /\ pc' = [pc EXCEPT ![t] = "wait"]
  /\ UNCHANGED <<irq, pvars, calls, msgs, i, len, ret, site, lock, cmp, stat, is_regaddr,
                 is_segment, regs, status, first, tmo, ctl0w, nacked>>

\* lines 84/130: wait_for_completion_timeout returns non-zero
WaitDone(t) ==
  /\ pc[t] = "wait"
  /\ cmp > 0
  /\ cmp' = cmp - 1
  /\ pc' = [pc EXCEPT ![t] = "check"]
  /\ UNCHANGED <<irq, pvars, calls, msgs, i, len, bp, ret, site, lock, stat, slave_reg,
                 is_regaddr, is_segment, hvars, gvars>>

TimeoutRetry(t) ==
  /\ pc[t] = "wait"
  /\ cmp = 0
  /\ hwop' = NoOp
  /\ tmo' = [tmo EXCEPT ![t] = Len(log[t])]
  /\ ctl0w' = [ctl0w EXCEPT ![t] = Append(@, 1)]
  /\ slave_reg' = U8(slave_reg + 255)
  /\ bp' = [bp EXCEPT ![t] = IF msgs[t][i[t]].rd THEN @ ELSE @ - 1]
  /\ pc' = [pc EXCEPT ![t] = "prog"]
  /\ UNCHANGED <<irq, pvars, calls, msgs, i, len, ret, site, lock, cmp, stat,
                 is_regaddr, is_segment, regs, status, log, first, nacked>>

\* lines 85-89 and 131-135: the wait timed out; software reset (which ends
\* the byte operation), -EAGAIN
Timeout(t) ==
  /\ pc[t] = "wait"
  /\ cmp = 0
  /\ hwop' = NoOp
  /\ ret' = [ret EXCEPT ![t] = -EAGAIN]
  /\ tmo' = [tmo EXCEPT ![t] = Len(log[t])]
  /\ ctl0w' = [ctl0w EXCEPT ![t] = Append(@, 1)]
  /\ pc' = [pc EXCEPT ![t] = "out"]
  /\ UNCHANGED <<irq, pvars, calls, msgs, i, len, bp, site, ivars, regs, status, log, first,
                 nacked>>

CheckNackReturn(t) ==
  /\ pc[t] = "check"
  /\ I2CM_NACK_RCVD \in stat
  /\ hwop' = NoOp
  /\ ret' = [ret EXCEPT ![t] = -EIO]
  /\ ctl0w' = [ctl0w EXCEPT ![t] = Append(@, 1)]
  /\ pc' = [pc EXCEPT ![t] = "idle"]
  /\ UNCHANGED <<irq, pvars, calls, msgs, i, len, bp, site, ivars, regs, status, log, first,
                 tmo, nacked>>

\* lines 92-96 and 138-142: the snapshot holds the nack bit; software
\* reset, -EIO
CheckNack(t) ==
  /\ pc[t] = "check"
  /\ I2CM_NACK_RCVD \in stat
  /\ hwop' = NoOp
  /\ ret' = [ret EXCEPT ![t] = -EIO]
  /\ ctl0w' = [ctl0w EXCEPT ![t] = Append(@, 1)]
  /\ pc' = [pc EXCEPT ![t] = "out"]
  /\ UNCHANGED <<irq, pvars, calls, msgs, i, len, bp, site, ivars, regs, status, log, first,
                 tmo, nacked>>

\* lines 98-99 and 144: the byte is taken as transferred; a read stores
\* the low byte of I2CM_INTERFACE_RDDATA_0_3 (*buf++); the direction is
\* cleared
ByteOk(t) ==
  /\ pc[t] = "check"
  /\ I2CM_NACK_RCVD \notin stat
  /\ msgs' = IF msgs[t][i[t]].rd
             THEN [msgs EXCEPT ![t][i[t]].buf[bp[t] + 1] = regs.rddata]
             ELSE msgs
  /\ bp' = [bp EXCEPT ![t] = IF msgs[t][i[t]].rd THEN @ + 1 ELSE @]
  /\ pc' = [pc EXCEPT ![t] = "byte"]
  /\ UNCHANGED <<irq, pvars, calls, i, len, ret, site, ivars, hvars, gvars>>

MuteOnSuccess(t) ==
  /\ pc[t] = "out"
  /\ ret' = [ret EXCEPT ![t] = IF @ = 0 THEN Len(msgs[t]) ELSE @]
  /\ regs' = IF ret[t] = 0
             THEN [regs EXCEPT !.mask_n = @ \ {I2CM_OP_DONE, I2CM_NACK_RCVD}]
             ELSE regs
  /\ pc' = [pc EXCEPT ![t] = "unlock"]
  /\ UNCHANGED <<irq, pvars, calls, msgs, i, len, bp, site, ivars, status, hwop, gvars>>

\* lines 214-219: ret = num on success; mute DONE and NACK
Mute(t) ==
  /\ pc[t] = "out"
  /\ ret' = [ret EXCEPT ![t] = IF @ = 0 THEN Len(msgs[t]) ELSE @]
  /\ regs' = [regs EXCEPT !.mask_n = @ \ {I2CM_OP_DONE, I2CM_NACK_RCVD}]
  /\ pc' = [pc EXCEPT ![t] = "unlock"]
  /\ UNCHANGED <<irq, pvars, calls, msgs, i, len, bp, site, ivars, status, hwop, gvars>>

\* lines 221-223: mutex_unlock and return ret.  The caller's messages, the
\* result and the call's history end with the call.
Unlock(t) ==
  /\ pc[t] = "unlock"
  /\ lock' = 0
  /\ ret' = [ret EXCEPT ![t] = 0]
  /\ pc' = [pc EXCEPT ![t] = "idle"]
  /\ msgs' = [msgs EXCEPT ![t] = <<>>]
  /\ i' = [i EXCEPT ![t] = 0]
  /\ len' = [len EXCEPT ![t] = 0]
  /\ bp' = [bp EXCEPT ![t] = 0]
  /\ log' = [log EXCEPT ![t] = <<>>]
  /\ first' = [first EXCEPT ![t] = 0]
  /\ tmo' = [tmo EXCEPT ![t] = 0]
  /\ ctl0w' = [ctl0w EXCEPT ![t] = <<>>]
  /\ nacked' = [nacked EXCEPT ![t] = FALSE]
  /\ UNCHANGED <<irq, pvars, calls, site, cmp, stat, slave_reg, is_regaddr, is_segment,
                 hvars>>

(* --------------------- the controller's I2C master -------------------- *)
\* The byte operation ends acknowledged: OP_DONE is latched and a read
\* presents the sink's byte in I2CM_INTERFACE_RDDATA_0_3.
HwDone ==
  /\ hwop.kind # "none"
  /\ status' = status \cup {I2CM_OP_DONE}
  /\ regs' = IF hwop.kind = "read"
             THEN [regs EXCEPT !.rddata = SinkReg(hwop.reg)]
             ELSE regs
  /\ hwop' = NoOp
  /\ UNCHANGED <<irq, pvars, calls, tvars, ivars, gvars>>

\* The sink does not acknowledge: NACK_RCVD is latched.
HwNack ==
  /\ hwop.kind # "none"
  /\ status' = status \cup {I2CM_NACK_RCVD}
  /\ hwop' = NoOp
  /\ UNCHANGED <<irq, pvars, calls, regs, tvars, ivars, gvars>>

\* Another source raises a bit of MAINUNIT_1_INT_STATUS: a read request
\* of the I2C master, or an interrupt the handler does not serve.  The
\* count of pending completions is capped at MaxPosted.
HwRaise(b) ==
  /\ cmp < MaxPosted
  /\ b \notin status
  /\ status' = status \cup {b}
  /\ UNCHANGED <<irq, pvars, calls, regs, hwop, tvars, ivars, gvars>>

(* ---------------------- dw_hdmi_qp_main_hardirq ----------------------- *)
IrqFilter == {I2CM_OP_DONE, I2CM_READ_REQUEST, I2CM_NACK_RCVD}

HardirqClearAll ==
  /\ stat' = status \cap IrqFilter
  /\ IF status \cap IrqFilter # {}
     THEN /\ status' = {}
          /\ cmp' = cmp + 1
     ELSE UNCHANGED <<status, cmp>>
  /\ irq' = [raw |-> status, clear |-> status \cap IrqFilter,
             posted |-> IF status \cap IrqFilter # {} THEN 1 ELSE 0,
             ret |-> IF status # {} THEN IRQ_HANDLED ELSE IRQ_NONE]
  /\ nacked' = [t \in Threads |->
                  nacked[t] \/ (pc[t] = "wait" /\ I2CM_NACK_RCVD \in status)]
  /\ UNCHANGED <<pvars, calls, tvars, lock, slave_reg, is_regaddr,
                 is_segment, regs, hwop, log, first, tmo, ctl0w>>

\* lines 570-590.  The line is requested IRQF_SHARED (line 715), so the
\* handler also runs when another device raised the line: it is enabled
\* in every state.
Hardirq ==
  /\ stat' = status \cap IrqFilter
  /\ IF status \cap IrqFilter # {}
     THEN /\ status' = status \ IrqFilter
          /\ cmp' = cmp + 1
     ELSE UNCHANGED <<status, cmp>>
  /\ irq' = [raw |-> status, clear |-> status \cap IrqFilter,
             posted |-> IF status \cap IrqFilter # {} THEN 1 ELSE 0,
             ret |-> IF status # {} THEN IRQ_HANDLED ELSE IRQ_NONE]
  /\ nacked' = [t \in Threads |->
                  nacked[t] \/ (pc[t] = "wait" /\ I2CM_NACK_RCVD \in status)]
  /\ UNCHANGED <<pvars, calls, tvars, lock, slave_reg, is_regaddr,
                 is_segment, regs, hwop, log, first, tmo, ctl0w>>

Xfer(t) ==
  \/ \E why \in {"addr", "len"} : Reject(t, why)
  \/ Call(t)
  \/ Lock(t)
  \/ Begin(t) \/ MsgsDone(t) \/ Segment(t)
  \/ ReadStart(t) \/ WriteStart(t) \/ MsgEnd(t) \/ Arm(t) \/ Program(t)
  \/ WaitDone(t) \/ Timeout(t) \/ CheckNack(t) \/ ByteOk(t) \/ Mute(t)
  \/ Unlock(t)

Next ==
  \/ \E t \in Threads : Xfer(t)
  \/ HwDone
  \/ HwNack
  \/ Hardirq

Spec == Init /\ [][Next]_vars

(* ---------------------------- the lifecycle --------------------------- *)
\* What dw_hdmi_qp_setup reads besides its arguments: the return value of
\* phy.ops->init (phy_ok: it is 0), hdmi->sink_is_hdmi, the TMDS clock of
\* the mode, dw_hdmi_support_scdc(), and what hdmi_config_AVI works on.
SetupAviInputs == {in \in AviInputs : /\ in.vic \in {16, 128}
                                      /\ in.colorspace = 0
                                      /\ in.packed = Buf(AviBufSize, 1, 1)}
TmdsClocks == {HDMI14_MAX_TMDSCLK - 1, HDMI14_MAX_TMDSCLK,
               HDMI14_MAX_TMDSCLK + 1}
SetupInputs == [phy_ok : BOOLEAN, sink_is_hdmi : BOOLEAN,
                mtmdsclock : TmdsClocks, scdc : BOOLEAN,
                avi : SetupAviInputs]

dw_hdmi_qp_setup_ge(l, in) ==
  IF ~in.phy_ok THEN l
  ELSE IF in.sink_is_hdmi
  THEN LET high == in.mtmdsclock >= HDMI14_MAX_TMDSCLK
           req == IF high THEN 1 ELSE 0
       IN [l EXCEPT !.opmode_dvi = 0,
                    !.hdcp2_bypass = 1,
                    !.sink_ratio = IF in.scdc THEN req ELSE @,
                    !.sink_scrambling = IF in.scdc THEN req ELSE @,
                    !.scramb = req]
  ELSE [l EXCEPT !.hdcp2_bypass = 1, !.opmode_dvi = 1]

\* lines 369-438: the link configuration dw_hdmi_qp_setup leaves behind.
\* It returns at line 400 when phy.ops->init fails.
dw_hdmi_qp_setup(l, in) ==
  IF ~in.phy_ok THEN l
  ELSE IF in.sink_is_hdmi
  THEN LET high == in.mtmdsclock > HDMI14_MAX_TMDSCLK
           req == IF high THEN 1 ELSE 0
       IN [l EXCEPT !.opmode_dvi = 0,
                    !.hdcp2_bypass = 1,
                    !.sink_ratio = IF in.scdc THEN req ELSE @,
                    !.sink_scrambling = IF in.scdc THEN req ELSE @,
                    !.scramb = req]
  ELSE [l EXCEPT !.hdcp2_bypass = 1, !.opmode_dvi = 1]

EffectiveForceExplicitFirst(h) ==
  IF h.force = DRM_FORCE_UNSPECIFIED
  THEN (IF h.disabled \/ ~h.rxsense THEN DRM_FORCE_OFF ELSE DRM_FORCE_ON)
  ELSE h.force

\* lines 442-451: the force update_power acts on
EffectiveForce(h) ==
  IF h.disabled THEN DRM_FORCE_OFF
  ELSE IF h.force = DRM_FORCE_UNSPECIFIED
  THEN (IF h.rxsense THEN DRM_FORCE_ON ELSE DRM_FORCE_OFF)
  ELSE h.force

dw_hdmi_qp_update_power_always(h, in) ==
  IF EffectiveForce(h) = DRM_FORCE_OFF
  THEN /\ hdmi' = IF h.bridge_is_on
                  THEN [h EXCEPT !.phy_enabled = FALSE,
                                 !.bridge_is_on = FALSE]
                  ELSE h
       /\ link' = link
       /\ avi' = avi
       /\ last' = [NoUpdate EXCEPT !.was_on = h.bridge_is_on]
  ELSE /\ hdmi' = [h EXCEPT !.bridge_is_on = TRUE,
                            !.phy_enabled = IF in.phy_ok THEN TRUE ELSE @]
       /\ link' = dw_hdmi_qp_setup(link, in)
       /\ avi' = IF in.phy_ok /\ in.sink_is_hdmi
                 THEN hdmi_config_AVI(in.avi)
                 ELSE avi
       /\ last' = [setup |-> IF in.phy_ok THEN "done" ELSE "failed",
                   was_on |-> h.bridge_is_on, conn |-> h.curr_conn,
                   in |-> in]

\* lines 440-473, run on the fields h the calling handler has just written.
\* bridge_is_on is set at line 464 before dw_hdmi_qp_setup is called at
\* line 470, and the value setup returns is dropped.
dw_hdmi_qp_update_power(h, in) ==
  IF EffectiveForce(h) = DRM_FORCE_OFF
  THEN /\ hdmi' = IF h.bridge_is_on
                  THEN [h EXCEPT !.phy_enabled = FALSE,
                                 !.bridge_is_on = FALSE]
                  ELSE h
       /\ link' = link
       /\ avi' = avi
       /\ last' = [NoUpdate EXCEPT !.was_on = h.bridge_is_on]
  ELSE IF ~h.bridge_is_on
  THEN /\ hdmi' = [h EXCEPT !.bridge_is_on = TRUE,
                            !.phy_enabled = IF in.phy_ok THEN TRUE ELSE @]
       /\ link' = dw_hdmi_qp_setup(link, in)
       /\ avi' = IF in.phy_ok /\ in.sink_is_hdmi
                 THEN hdmi_config_AVI(in.avi)
                 ELSE avi
       /\ last' = [setup |-> IF in.phy_ok THEN "done" ELSE "failed",
                   was_on |-> FALSE, conn |-> h.curr_conn, in |-> in]
  ELSE /\ hdmi' = h
       /\ link' = link
       /\ avi' = avi
       /\ last' = [NoUpdate EXCEPT !.was_on = TRUE]

\* lines 632-742: dw_hdmi_qp_probe; locked is what CMU_STATUS reports
dw_hdmi_qp_probe(locked) ==
  /\ stage = "allocated"
  /\ locked = link.display_clk_locked
  /\ stage' = "probed"
  /\ hdmi' = Probed(locked)
  /\ regs' = InitRegs
  /\ status' = {}
  /\ UNCHANGED <<link, last, avi, irq, calls, tvars, ivars, hwop, gvars>>

\* lines 475-484: the connector's force callback
dw_hdmi_qp_connector_force(f, in) ==
  /\ stage = "probed"
  /\ dw_hdmi_qp_update_power([hdmi EXCEPT !.force = f], in)
  /\ UNCHANGED <<stage, irq, calls, tvars, ivars, hvars, gvars>>

dw_hdmi_qp_bridge_atomic_disable_flags(in) ==
  /\ stage = "probed"
  /\ hdmi' = [hdmi EXCEPT !.disabled = TRUE, !.curr_conn = NULL]
  /\ last' = [NoUpdate EXCEPT !.was_on = hdmi.bridge_is_on]
  /\ UNCHANGED <<link, avi, stage, irq, calls, tvars, ivars, hvars, gvars>>

\* lines 524-535
dw_hdmi_qp_bridge_atomic_disable(in) ==
  /\ stage = "probed"
  /\ dw_hdmi_qp_update_power([hdmi EXCEPT !.disabled = TRUE,
                                          !.curr_conn = NULL], in)
  /\ UNCHANGED <<stage, irq, calls, tvars, ivars, hvars, gvars>>

\* lines 537-553
dw_hdmi_qp_bridge_atomic_enable(in) ==
  /\ stage = "probed"
  /\ dw_hdmi_qp_update_power([hdmi EXCEPT !.disabled = FALSE,
                                          !.curr_conn = Connector], in)
  /\ UNCHANGED <<stage, irq, calls, tvars, ivars, hvars, gvars>>

\* The lifecycle from the allocation of struct dw_hdmi on.
InitPower ==
  /\ pc = [t \in Threads |-> "idle"]
  /\ msgs = [t \in Threads |-> <<>>]
  /\ i = [t \in Threads |-> 0]
  /\ len = [t \in Threads |-> 0]
  /\ bp = [t \in Threads |-> 0]
  /\ ret = [t \in Threads |-> 0]
  /\ site = [t \in Threads |-> "none"]
  /\ lock = 0
  /\ cmp = 0
  /\ stat = {}
  /\ slave_reg = 0
  /\ is_regaddr = FALSE
  /\ is_segment = FALSE
  /\ regs = InitRegs
  /\ status = {}
  /\ hwop = NoOp
  /\ log = [t \in Threads |-> <<>>]
  /\ first = [t \in Threads |-> 0]
  /\ tmo = [t \in Threads |-> 0]
  /\ ctl0w = [t \in Threads |-> <<>>]
  /\ nacked = [t \in Threads |-> FALSE]
  /\ calls = 0
  /\ stage = "allocated"
  /\ hdmi = Zeroed
  /\ link \in {[ResetLink EXCEPT !.display_clk_locked = b] : b \in BOOLEAN}
  /\ last = NoUpdate
  /\ avi = NoAvi
  /\ irq = NoIrq

NextPower ==
  \/ \E locked \in BOOLEAN : dw_hdmi_qp_probe(locked)
  \/ \E f \in Forces, in \in SetupInputs : dw_hdmi_qp_connector_force(f, in)
  \/ \E in \in SetupInputs : dw_hdmi_qp_bridge_atomic_disable(in)
  \/ \E in \in SetupInputs : dw_hdmi_qp_bridge_atomic_enable(in)

SpecPower == InitPower /\ [][NextPower]_vars

(* ------------------- the infoframe functions alone -------------------- *)
\* hdmi_infoframe_set_checksum and hdmi_config_AVI applied to inputs drawn
\* from CsumBufs and AviInputs.
InitAvi ==
  /\ pc = [t \in Threads |-> "idle"]
  /\ msgs = [t \in Threads |-> <<>>]
  /\ i = [t \in Threads |-> 0]
  /\ len = [t \in Threads |-> 0]
  /\ bp = [t \in Threads |-> 0]
  /\ ret = [t \in Threads |-> 0]
  /\ site = [t \in Threads |-> "none"]
  /\ lock = 0
  /\ cmp = 0
  /\ stat = {}
  /\ slave_reg = 0
  /\ is_regaddr = FALSE
  /\ is_segment = FALSE
  /\ regs = InitRegs
  /\ status = {}
  /\ hwop = NoOp
  /\ log = [t \in Threads |-> <<>>]
  /\ first = [t \in Threads |-> 0]
  /\ tmo = [t \in Threads |-> 0]
  /\ ctl0w = [t \in Threads |-> <<>>]
  /\ nacked = [t \in Threads |-> FALSE]
  /\ calls = 0
  /\ stage = "probed"
  /\ hdmi = Probed(FALSE)
  /\ link = ResetLink
  /\ last = NoUpdate
  /\ avi \in {[NoAvi EXCEPT !.stage = "input", !.in.packed = b, !.buf = b] :
               b \in CsumBufs}
  /\ irq = NoIrq

\* lines 240-251 on the buffer handed in, with its length as size
SetChecksum ==
  /\ avi.stage = "input"
  /\ avi' = [avi EXCEPT !.stage = "summed",
                        !.buf = hdmi_infoframe_set_checksum(@, Len(@))]
  /\ UNCHANGED <<stage, hdmi, link, last, irq, calls, tvars, ivars, hvars,
                 gvars>>

\* lines 253-303
ConfigAVI(in) ==
  /\ avi' = hdmi_config_AVI(in)
  /\ UNCHANGED <<stage, hdmi, link, last, irq, calls, tvars, ivars, hvars,
                 gvars>>

NextAvi ==
  \/ SetChecksum
  \/ \E in \in AviInputs : ConfigAVI(in)

SpecAvi == InitAvi /\ [][NextAvi]_vars

(* --------------------- the end-to-end scenario ------------------------ *)
\* transfer([{addr, write, buf = [0x00]}, {addr, read, buf_len = ScnLen}]),
\* to the command-interface address and to the sink's DDC address, against
\* a sink that acknowledges every byte: no nack, no timeout.
Scn(a) == <<[addr |-> a, rd |-> FALSE, buf |-> <<0>>],
            [addr |-> a, rd |-> TRUE, buf |-> ReadBuffer(ScnLen)]>>
ScnSeqs == {Scn(DDC_CI_ADDR), Scn(DDC_ADDR)}

RejectScn(t) == \E m \in ScnSeqs : Rejected(t, m)

LockScn(t) ==
  /\ pc[t] = "lock"
  /\ lock = 0
  /\ \E m \in ScnSeqs : Acquire(t, m)

XferScn(t) ==
  \/ RejectScn(t)
  \/ Call(t)
  \/ LockScn(t)
  \/ Begin(t) \/ MsgsDone(t)
  \/ ReadStart(t) \/ WriteStart(t) \/ MsgEnd(t) \/ Arm(t) \/ Program(t)
  \/ WaitDone(t) \/ ByteOk(t) \/ Mute(t)
  \/ Unlock(t)

NextScn ==
  \/ \E t \in Threads : XferScn(t)
  \/ HwDone
  \/ Hardirq

SpecScn == Init /\ [][NextScn]_vars

(* ------------- transfers on a shared interrupt line ------------------- *)
\* Two kinds of call: a segment pointer write followed by a one byte read,
\* and a write of a register address and one data byte.  The sink may
\* acknowledge, not acknowledge or not answer at all, and the other bits of
\* MAINUNIT_1_INT_STATUS may be raised at any time.
SegRead == <<[addr |-> DDC_SEGMENT_ADDR, rd |-> FALSE,
              buf |-> WritePayload(1)],
             [addr |-> DDC_ADDR, rd |-> TRUE, buf |-> ReadBuffer(1)]>>
RegWrite == <<[addr |-> DDC_ADDR, rd |-> FALSE, buf |-> WritePayload(2)]>>
IrqSeqs == {SegRead, RegWrite}

LockIrq(t) ==
  /\ pc[t] = "lock"
  /\ lock = 0
  /\ \E m \in IrqSeqs : Acquire(t, m)

XferIrq(t) ==
  \/ Call(t)
  \/ LockIrq(t)
  \/ Begin(t) \/ MsgsDone(t) \/ Segment(t)
  \/ ReadStart(t) \/ WriteStart(t) \/ MsgEnd(t) \/ Arm(t) \/ Program(t)
  \/ WaitDone(t) \/ Timeout(t) \/ CheckNack(t) \/ ByteOk(t) \/ Mute(t)
  \/ Unlock(t)

NextIrq ==
  \/ \E t \in Threads : XferIrq(t)
  \/ HwDone
  \/ HwNack
  \/ \E b \in {I2CM_READ_REQUEST, OtherIrq} : HwRaise(b)
  \/ Hardirq

\* A thread inside dw_hdmi_qp_i2c_xfer keeps running: mutex_lock returns
\* once the mutex stays free, and wait_for_completion_timeout returns when
\* the completion is posted or, at the latest, when the 100 ms have passed.
\* Nothing is assumed of the controller, the sink or the interrupt line.
SpecIrq ==
  Init /\ [][NextIrq]_vars /\ \A t \in Threads : WF_vars(XferIrq(t))

(* ------------------------------ claims -------------------------------- *)
\* The call of thread t is between mutex_lock (line 176) and mutex_unlock
\* (line 221).
InCS(t) == pc[t] \in {"begin", "msg", "byte", "prog", "wait", "check",
                      "out", "unlock"}

\* The byte operations thread t's call programmed for its message j
OpsOf(t, j) == {n \in 1..Len(log[t]) : log[t][n].m = j}

\* C1: at most one transfer is between the lock acquisition and the lock
\* release at any time, and it is the owner of the lock; so the register
\* programming of two transfers never interleaves.
C1_MutualExclusion ==
  /\ \A t \in Threads : InCS(t) => lock = t
  /\ \A t1, t2 \in Threads : (InCS(t1) /\ InCS(t2)) => t1 = t2

\* a transfer waits for a byte while another call waits for the lock
C1_Witness ==
  \E t1, t2 \in Threads :
    t1 # t2 /\ pc[t1] = "wait" /\ hwop.kind # "none" /\ pc[t2] = "lock"

\* Every message sequence with a zero-length message is turned away by the
\* checks of lines 155-174.
ZeroLenAllRejected ==
  \A m \in MsgSeqs : HasZeroLen(m) => Validate(m) \in {"addr", "len"}

\* C2: a transfer with a zero-length message at any position fails with
\* -EOPNOTSUPP without a hardware register write: it never gets to own the
\* lock, and the step that returns at line 172 leaves the lock, the
\* registers (the interrupt mask among them), is_regaddr, is_segment and
\* slave_reg as they were.
C2_ZeroLength ==
  [][/\ ZeroLenAllRejected
     /\ \A t \in Threads :
          /\ InCS(t)' => ~HasZeroLen(msgs'[t])
          /\ (calls' # calls /\ site'[t] = "len" /\ pc'[t] = "idle")
               => /\ ret'[t] = -EOPNOTSUPP
                  /\ UNCHANGED <<lock, regs, status, hwop, is_regaddr,
                                 is_segment, slave_reg>>]_vars

\* a call returned at line 172 after an earlier transfer left is_regaddr set
C2_Witness ==
  \E t \in Threads :
    site[t] = "len" /\ ret[t] = -EOPNOTSUPP /\ pc[t] = "idle" /\ is_regaddr

\* Every message sequence whose first message is addressed to DDC_CI_ADDR
\* returns at line 165, whatever its length and the other messages.
FirstCIAllRejected ==
  \A m \in MsgSeqs : m[1].addr = DDC_CI_ADDR => Validate(m) = "addr"

\* C3: a transfer whose first message is addressed to DDC_CI_ADDR fails
\* with -EOPNOTSUPP, whatever the number and content of its messages, before
\* any hardware access.
C3_FirstCI ==
  [][/\ FirstCIAllRejected
     /\ \A t \in Threads :
          /\ InCS(t)' => msgs'[t][1].addr # DDC_CI_ADDR
          /\ (calls' # calls /\ site'[t] = "addr" /\ pc'[t] = "idle")
               => /\ ret'[t] = -EOPNOTSUPP
                  /\ UNCHANGED <<lock, hvars>>]_vars

\* a call returned at line 165 while another transfer waits for a byte
C3_Witness ==
  \E t, u \in Threads :
    site[t] = "addr" /\ ret[t] = -EOPNOTSUPP /\ pc[t] = "idle"
    /\ pc[u] = "wait"

\* C4: a transfer with a message addressed to DDC_CI_ADDR at any position
\* fails with -EOPNOTSUPP and no byte of that message goes over the bus.
C4_AnyCI ==
  \A t \in Threads :
    (InCS(t) /\ \E j \in 1..Len(msgs[t]) : msgs[t][j].addr = DDC_CI_ADDR)
      => /\ pc[t] = "unlock" => ret[t] = -EOPNOTSUPP
         /\ \A n \in 1..Len(log[t]) :
              msgs[t][log[t][n].m].addr # DDC_CI_ADDR

\* C5: after the wait for a byte timed out the call returns -EAGAIN,
\* I2CM_CONTROL0 has been written once, with 0x01, no byte operation was
\* started after the one that timed out, and no byte was programmed twice.
C5_Timeout ==
  \A t \in Threads :
    tmo[t] # 0 =>
      /\ pc[t] \in {"out", "unlock"}
      /\ ret[t] = -EAGAIN
      /\ ctl0w[t] = <<1>>
      /\ Len(log[t]) = tmo[t]
      /\ hwop.kind = "none"
      /\ \A a, b \in 1..Len(log[t]) :
           (log[t][a].m = log[t][b].m /\ log[t][a].k = log[t][b].k) => a = b

\* the second byte of a message timed out and the call is about to return
C5_Witness ==
  \E t \in Threads : tmo[t] = 2 /\ pc[t] = "unlock" /\ ret[t] = -EAGAIN

\* C6: when the handler stored a snapshot with the nack bit while the call
\* waited for a byte, the call resets I2CM_CONTROL0 and fails with -EIO: the
\* byte is never taken as transferred.
C6_NackFails ==
  \A t \in Threads :
    nacked[t] =>
      \/ pc[t] \in {"wait", "check"}
      \/ pc[t] \in {"out", "unlock"} /\ ret[t] = -EIO /\ ctl0w[t] = <<1>>

\* C7: is_regaddr is false when the first message is processed; a read
\* processed while it is false sets it and reads its bytes from registers
\* 0, 1, 2, ...
C7_ReadDefault ==
  \A t \in Threads :
    /\ (pc[t] = "msg" /\ i[t] = 1) => ~is_regaddr
    /\ (InCS(t) /\ first[t] # 0) => is_regaddr
    /\ (InCS(t) /\ first[t] # 0 /\ msgs[t][first[t]].rd)
         => \A n \in OpsOf(t, first[t]) : log[t][n].reg = U8(log[t][n].k)

\* in the second transfer, a read that found is_regaddr false programmed
\* both of its bytes
C7_Witness ==
  \E t \in Threads :
    /\ calls = 2 /\ InCS(t) /\ first[t] # 0
    /\ msgs[t][first[t]].rd
    /\ Cardinality(OpsOf(t, first[t])) = 2

\* The write bytes of message j of thread t go out in order, and register
\* addresses go up by one from one byte operation to the next.
WriteOrder(t) ==
  /\ \A n \in 1..Len(log[t]) :
       ~log[t][n].rd =>
         log[t][n].data = msgs[t][log[t][n].m].buf[log[t][n].k + 1]
  /\ \A n \in 2..Len(log[t]) : log[t][n].reg = U8(log[t][n - 1].reg + 1)

\* C8 as stated: every write message takes its first byte as the register
\* address and sends the other n - 1 bytes to consecutive addresses.
C8_EveryWrite ==
  \A t \in Threads :
    /\ WriteOrder(t)
    /\ \A n \in 1..Len(log[t]) :
         ~log[t][n].rd =>
           /\ log[t][n].k >= 1
           /\ log[t][n].reg =
                U8(msgs[t][log[t][n].m].buf[1] + log[t][n].k - 1)

\* C8, amended: a write message processed while is_regaddr is false takes
\* its first byte as the register address and sends the other n - 1 bytes
\* to consecutive addresses from there, one byte operation each; a write
\* message processed while is_regaddr is set sends all its n bytes, to the
\* addresses that follow the last one used.
C8_Write ==
  \A t \in Threads :
    /\ WriteOrder(t)
    /\ \A n \in 1..Len(log[t]) :
         (~log[t][n].rd /\ log[t][n].m = first[t]) =>
           /\ log[t][n].k >= 1
           /\ log[t][n].reg =
                U8(msgs[t][log[t][n].m].buf[1] + log[t][n].k - 1)
    /\ \A j \in 1..Len(msgs[t]) :
         (InCS(t) /\ j < i[t] /\ ~msgs[t][j].rd /\ ~IsSegmentMsg(msgs[t][j]))
           => Cardinality(OpsOf(t, j)) =
                IF j = first[t] THEN Len(msgs[t][j].buf) - 1
                ELSE Len(msgs[t][j].buf)

\* a transfer of two write messages of two bytes each is complete: one
\* byte operation for the first, two for the second
C8_Witness ==
  \E t \in Threads :
    /\ pc[t] = "unlock" /\ ret[t] = 2 /\ first[t] = 1
    /\ \A j \in 1..2 : ~msgs[t][j].rd /\ Len(msgs[t][j].buf) = 2
    /\ Cardinality(OpsOf(t, 1)) = 1
    /\ Cardinality(OpsOf(t, 2)) = 2

\* C9 as stated: the scenario transfer to address 0x37 returns 2 with the
\* read buffer holding the sink's registers 0..ScnLen-1: no scenario call
\* returns from the checks, and each is about to return 2 when it unlocks.
C9_AsStated ==
  \A t \in Threads :
    /\ site[t] = "none"
    /\ pc[t] = "unlock" =>
         /\ ret[t] = 2
         /\ msgs[t][2].buf = [j \in 1..ScnLen |-> SinkReg(j - 1)]

\* C9, amended: the scenario transfer to address 0x37 returns -EOPNOTSUPP
\* at line 165 and no byte is transferred; the same transfer to the sink's
\* DDC address returns 2 with the read buffer holding the sink's registers
\* 0..ScnLen-1 in order.
C9_Scenario ==
  /\ Validate(Scn(DDC_CI_ADDR)) = "addr"
  /\ \A t \in Threads :
       /\ site[t] # "none" => site[t] = "addr" /\ ret[t] = -EOPNOTSUPP
       /\ InCS(t) => msgs[t][1].addr = DDC_ADDR
       /\ pc[t] = "unlock" =>
            /\ ret[t] = 2
            /\ msgs[t][2].buf = [j \in 1..ScnLen |-> SinkReg(j - 1)]
            /\ Len(log[t]) = ScnLen

\* one scenario call was turned away, another is about to return 2
C9_Witness ==
  \E t, u \in Threads :
    /\ site[t] = "addr" /\ ret[t] = -EOPNOTSUPP /\ pc[t] = "idle"
    /\ pc[u] = "unlock" /\ ret[u] = 2

\* C10: bridge_is_on implies phy.enabled; when phy.ops->init fails during
\* setup the bridge keeps the on/off state it had before.
C10_OnImpliesPhy ==
  /\ hdmi.bridge_is_on => hdmi.phy_enabled
  /\ last.setup = "failed" => hdmi.bridge_is_on = last.was_on

\* C11: after probe and any sequence of atomic_enable, atomic_disable and
\* connector force requests, curr_conn is not NULL whenever disabled is
\* false; so update_power never runs setup with a NULL connector.
C11_ConnValid ==
  /\ (stage = "probed" /\ ~hdmi.disabled) => hdmi.curr_conn # NULL
  /\ last.setup # "none" => last.conn # NULL

\* The decision table of the effective force, by case.
ForceTable(disabled, force, rxsense) ==
  CASE disabled -> DRM_FORCE_OFF
    [] ~disabled /\ force = DRM_FORCE_UNSPECIFIED /\ rxsense -> DRM_FORCE_ON
    [] ~disabled /\ force = DRM_FORCE_UNSPECIFIED /\ ~rxsense
         -> DRM_FORCE_OFF
    [] OTHER -> force

\* update_power computes the table for every value of the fields it reads.
ForceTableComputed ==
  \A h \in [disabled : BOOLEAN, rxsense : BOOLEAN, force : Forces,
            curr_conn : {NULL, Connector}, bridge_is_on : BOOLEAN,
            phy_enabled : BOOLEAN] :
    EffectiveForce(h) = ForceTable(h.disabled, h.force, h.rxsense)

\* C12: update_power acts on the effective force of the decision table
\* (disabled: OFF; else unspecified: ON if rxsense, OFF if not; else the
\* explicit value).  OFF with the bridge on: the PHY is disabled and the
\* bridge marked off.  Not OFF with the bridge off: the bridge is marked on
\* and setup runs.  Otherwise nothing changes.
C12_UpdatePower ==
  [][stage = "probed" =>
       LET eff == ForceTable(hdmi'.disabled, hdmi'.force, hdmi'.rxsense)
       IN /\ ForceTableComputed
          /\ IF eff = DRM_FORCE_OFF /\ hdmi.bridge_is_on
             THEN /\ ~hdmi'.bridge_is_on /\ ~hdmi'.phy_enabled
                  /\ link' = link /\ last'.setup = "none"
             ELSE IF eff # DRM_FORCE_OFF /\ ~hdmi.bridge_is_on
             THEN hdmi'.bridge_is_on /\ last'.setup \in {"done", "failed"}
             ELSE /\ hdmi'.bridge_is_on = hdmi.bridge_is_on
                  /\ hdmi'.phy_enabled = hdmi.phy_enabled
                  /\ link' = link /\ last'.setup = "none"]_vars

\* atomic_disable turned the bridge off although force ON is set
C12_Witness ==
  /\ stage = "probed" /\ hdmi.disabled /\ hdmi.force = DRM_FORCE_ON
  /\ ~hdmi.bridge_is_on /\ ~hdmi.phy_enabled /\ last.was_on

\* C13: probe leaves the controller disabled when the clock-locked status
\* is false, and clears disabled, with no enable call, when it is true.
C13_Bind ==
  [][(stage = "allocated" /\ stage' = "probed") =>
       /\ hdmi'.disabled = ~link.display_clk_locked
       /\ ~hdmi'.bridge_is_on /\ hdmi'.curr_conn = NULL
       /\ last' = NoUpdate]_vars

\* right after a probe that found the clock locked
C13_Witness ==
  /\ stage = "probed" /\ link.display_clk_locked /\ ~hdmi.disabled
  /\ ~hdmi.bridge_is_on /\ hdmi.force = DRM_FORCE_UNSPECIFIED
  /\ last = NoUpdate

\* C14 as stated: whenever setup runs, a TMDS clock above 340 MHz with SCDC
\* support leaves SCRAMB_CONFIG0 = 1 and both sink requests on, and a TMDS
\* clock of at most 340 MHz leaves SCRAMB_CONFIG0 = 0 and both requests off.
C14_AsStated ==
  last.setup # "none" =>
    /\ (last.in.mtmdsclock > HDMI14_MAX_TMDSCLK /\ last.in.scdc)
         => /\ link.scramb = 1
            /\ link.sink_ratio = 1 /\ link.sink_scrambling = 1
    /\ last.in.mtmdsclock <= HDMI14_MAX_TMDSCLK
         => /\ link.scramb = 0
            /\ link.sink_ratio = 0 /\ link.sink_scrambling = 0

\* C14, amended: a setup whose PHY init succeeded, for an HDMI sink, writes
\* 1 to SCRAMB_CONFIG0 when the TMDS clock is above 340 MHz and 0 when it is
\* not, and asks the sink for the same value of high TMDS clock ratio and
\* scrambling if the sink supports SCDC; for a DVI sink, or when PHY init
\* failed, it leaves SCRAMB_CONFIG0 and the sink alone.
C14_Scrambling ==
  [][(stage = "probed" /\ last'.setup # "none") =>
       LET in == last'.in
           req == IF in.mtmdsclock > HDMI14_MAX_TMDSCLK THEN 1 ELSE 0
       IN IF last'.setup = "done" /\ in.sink_is_hdmi
          THEN /\ link'.scramb = req
               /\ link'.sink_ratio = IF in.scdc THEN req ELSE link.sink_ratio
               /\ link'.sink_scrambling =
                    IF in.scdc THEN req ELSE link.sink_scrambling
          ELSE /\ link'.scramb = link.scramb
               /\ link'.sink_ratio = link.sink_ratio
               /\ link'.sink_scrambling = link.sink_scrambling]_vars

\* setup ran for an HDMI sink with SCDC at exactly 340 MHz after an earlier
\* setup had turned scrambling on
C14_Witness ==
  /\ last.setup = "done" /\ last.in.sink_is_hdmi /\ last.in.scdc
  /\ last.in.mtmdsclock = HDMI14_MAX_TMDSCLK
  /\ link.scramb = 0 /\ link.sink_ratio = 0 /\ link.sink_scrambling = 0
  /\ link.hdcp2_bypass = 1 /\ link.opmode_dvi = 0

\* The sum of the bytes of a buffer, without wrap-around.
RECURSIVE SumTo(_, _)
SumTo(buf, n) == IF n = 0 THEN 0 ELSE SumTo(buf, n - 1) + buf[n]
ByteSum(buf) == SumTo(buf, Len(buf))

\* C15: after hdmi_infoframe_set_checksum the bytes of the buffer sum to 0
\* modulo 256, whatever byte 3 held before and also when the other bytes
\* already sum to 0 modulo 256; byte 3 is a byte and no other byte changed.
C15_Checksum ==
  avi.stage = "summed" =>
    /\ Len(avi.buf) = Len(avi.in.packed)
    /\ \A j \in 1..Len(avi.buf) :
         /\ avi.buf[j] \in 0..255
         /\ j # 4 => avi.buf[j] = avi.in.packed[j]
    /\ ByteSum(avi.buf) % 256 = 0

\* a 17 byte buffer whose other bytes sum to 256 and whose byte 3 held 7
C15_Witness ==
  /\ avi.stage = "summed"
  /\ avi.in.packed = ZeroSumBuf(AviBufSize, 7)
  /\ avi.buf[4] = 0

\* C16: for a VIC of 128 or more the AVI buffer has version 3 in byte 1, as
\* has the version field (bits 15:8) of PKT_AVI_CONTENTS0, byte 7 is the
\* VIC, and the 17 bytes sum to 0 modulo 256.
C16_Vic ==
  (avi.stage = "packed" /\ avi.in.vic >= 128) =>
    /\ Len(avi.buf) = AviBufSize
    /\ avi.buf[2] = 3
    /\ (avi.contents0 \div 256) % 256 = 3
    /\ avi.buf[8] = avi.in.vic
    /\ ByteSum(avi.buf) % 256 = 0

\* VIC 128, a version 2 frame whose packed bytes did not sum to 0
C16_Witness ==
  /\ avi.stage = "packed" /\ avi.in.vic = 128 /\ avi.in.version = 2
  /\ ByteSum(avi.in.packed) % 256 # 0
  /\ avi.buf[2] = 3 /\ avi.buf[8] = 128

\* C17: every invocation of dw_hdmi_qp_main_hardirq stores as snapshot
\* exactly the bits operation-done, read-request and nack of the raw status;
\* if and only if the snapshot is not empty it clears exactly those bits and
\* posts the completion once; it returns IRQ_HANDLED if any bit of the raw
\* status was set and IRQ_NONE otherwise; it takes no lock and moves no
\* thread.
C17_Handler ==
  [][(irq' # irq \/ stat' # stat \/ cmp' > cmp) =>
       /\ irq'.raw = status
       /\ stat' = status \cap IrqFilter
       /\ irq'.clear = stat'
       /\ IF stat' # {}
          THEN status' = status \ stat' /\ cmp' = cmp + 1
          ELSE status' = status /\ cmp' = cmp
       /\ irq'.ret = IF status # {} THEN IRQ_HANDLED ELSE IRQ_NONE
       /\ lock' = lock /\ pc' = pc]_vars

\* an invocation that found operation-done together with a bit it does not
\* serve: it cleared the first, left the second, posted once
C17_Witness ==
  /\ irq.raw = {I2CM_OP_DONE, OtherIrq}
  /\ irq.clear = {I2CM_OP_DONE} /\ irq.posted = 1 /\ irq.ret = IRQ_HANDLED
  /\ stat = {I2CM_OP_DONE}
  /\ OtherIrq \in status

\* C18: operation-done and nack are unmasked only inside the critical
\* section: whenever no transfer holds the transaction lock, both bits of
\* MAINUNIT_1_INT_MASK_N are cleared, and whenever one of them is set the
\* owner of the lock is between the unmute (line 179) and the mute (line
\* 218).
C18_MaskedOutside ==
  /\ lock = 0 => regs.mask_n \cap {I2CM_OP_DONE, I2CM_NACK_RCVD} = {}
  /\ regs.mask_n \cap {I2CM_OP_DONE, I2CM_NACK_RCVD} # {} =>
       \E t \in Threads :
         lock = t /\ pc[t] \in {"msg", "byte", "prog", "wait", "check", "out"}

\* the lock is free again after a transfer that ended on a nack
C18_Witness ==
  /\ lock = 0 /\ calls > 0 /\ \A t \in Threads : pc[t] = "idle"
  /\ is_regaddr /\ I2CM_NACK_RCVD \in stat
  /\ regs.mask_n \cap {I2CM_OP_DONE, I2CM_NACK_RCVD} = {}

\* C19: every call that passed the checks and arrived at mutex_lock
\* eventually returns; when it is about to return its result is the number
\* of messages (and then the loop went through all of them), -EIO or
\* -EAGAIN; and the return releases the transaction lock.
C19_Returns ==
  /\ [](\A t \in Threads :
          pc[t] = "unlock" =>
            /\ lock = t
            /\ ret[t] \in {Len(msgs[t]), -EIO, -EAGAIN}
            /\ ret[t] = Len(msgs[t]) => i[t] = Len(msgs[t]) + 1)
  /\ [][\A t \in Threads :
          (pc[t] \in {"begin", "msg", "byte", "prog", "wait", "check",
                      "out", "unlock"} /\ pc'[t] = "idle") => lock' = 0]_vars
  /\ \A t \in Threads : (pc[t] = "lock") ~> (pc[t] = "idle")

\* a transfer that timed out is about to return while another call waits
\* for the lock
C19_Witness ==
  \E t1, t2 \in Threads :
    /\ pc[t1] = "unlock" /\ ret[t1] = -EAGAIN /\ lock = t1
    /\ pc[t2] = "lock"

\* C20: the waiter of a byte is woken only by the completion posted for
\* its own byte operation: when wait_for_completion_timeout has returned
\* non-zero, the operation the waiter programmed has ended (acknowledged or
\* not), it is not still executing.
C20_OwnCompletion ==
  \A t \in Threads : pc[t] = "check" => hwop.kind = "none"

\* C21: a one byte message to DDC_SEGMENT_ADDR leaves the segment address
\* field holding DDC_SEGMENT_ADDR and the segment pointer field holding the
\* payload byte, sets the segment flag, starts no byte operation, arms no
\* completion and leaves slave_reg and is_regaddr alone; and when the first
\* message is such a message the slave address programmed is DDC_ADDR.
C21_SegmentPointer ==
  /\ [][\A t \in Threads :
          (pc[t] = "msg" /\ i'[t] = i[t] + 1) =>
            /\ regs'.seg_addr = DDC_SEGMENT_ADDR
            /\ regs'.seg_ptr = msgs[t][i[t]].buf[1]
            /\ is_segment'
            /\ hwop' = hwop /\ cmp' = cmp /\ log' = log
            /\ slave_reg' = slave_reg /\ is_regaddr' = is_regaddr
            /\ pc'[t] = "msg"]_vars
  /\ [](\A t \in Threads :
          (pc[t] \in {"msg", "byte", "prog", "wait", "check", "out"}
           /\ IsSegmentMsg(msgs[t][1])) => regs.slvaddr = DDC_ADDR)

\* frame.version when PKT_AVI_CONTENTS0 is written (lines 267-268, 284)
FrameVersion == IF avi.in.vic >= 128 THEN 3 ELSE avi.in.version

\* The payload bytes (buffer offsets 3..16) in the four registers
\* PKT_AVI_CONTENTS1..4: payload byte n is byte n % 4, counted from the low
\* end, of register n \div 4; the two high bytes of the last register are
\* zero.  The highest buffer offset this reads is 13 + 3 = 16.
PayloadLayout ==
  /\ Len(avi.buf) = AviBufSize
  /\ Len(avi.contents1) = 4
  /\ \A w \in 1..4 : Len(avi.contents1[w]) = 4
  /\ \A n \in 0..13 :
       avi.contents1[(n \div 4) + 1][(n % 4) + 1] = avi.buf[n + 3 + 1]
  /\ avi.contents1[4][3] = 0 /\ avi.contents1[4][4] = 0

\* C22 as stated: PKT_AVI_CONTENTS0 is version | (length << 16), and the
\* payload is laid out as above.
C22_AsStated ==
  avi.stage = "packed" =>
    /\ avi.contents0 = FrameVersion + avi.in.length * 65536
    /\ PayloadLayout

\* C22: PKT_AVI_CONTENTS0 is (version << 8) | (length << 16); the four
\* following registers each hold four consecutive payload bytes, from
\* buffer offset 3 on, low byte first, 14 bytes in all, the last register
\* holding payload bytes 12 and 13 in its two low bytes and zero above.
C22_PacketLayout ==
  avi.stage = "packed" =>
    /\ avi.contents0 = FrameVersion * 256 + avi.in.length * 65536
    /\ PayloadLayout

\* a version 2 frame whose last two payload bytes are not zero
C22_Witness ==
  /\ avi.stage = "packed" /\ avi.in.vic = 16
  /\ avi.contents0 = 2 * 256 + 13 * 65536
  /\ avi.buf[16] # 0 /\ avi.buf[17] # 0
  /\ avi.contents1[4] = <<avi.buf[16], avi.buf[17], 0, 0>>
  /\ avi.contents1[1] = <<avi.buf[4], avi.buf[5], avi.buf[6], avi.buf[7]>>

\* C23: after bind and after every enable, disable and force request,
\* bridge_is_on implies not disabled and phy.enabled implies bridge_is_on;
\* so while the bridge is disabled (after atomic_disable returned) it is
\* off and the PHY is marked disabled, and update_power acts on
\* DRM_FORCE_OFF then whatever force and rxsense are.
C23_PowerFlags ==
  stage = "probed" =>
    /\ hdmi.bridge_is_on => ~hdmi.disabled
    /\ hdmi.phy_enabled => hdmi.bridge_is_on
    /\ hdmi.disabled => (~hdmi.bridge_is_on /\ ~hdmi.phy_enabled)
    /\ \A f \in Forces, rx \in BOOLEAN :
         EffectiveForce([hdmi EXCEPT !.disabled = TRUE, !.force = f,
                                     !.rxsense = rx]) = DRM_FORCE_OFF

\* atomic_disable found the bridge on, with force set to on, and turned
\* the bridge and the PHY off
C23_Witness ==
  /\ stage = "probed" /\ hdmi.disabled /\ hdmi.curr_conn = NULL
  /\ hdmi.force = DRM_FORCE_ON /\ hdmi.rxsense
  /\ last.was_on /\ last.setup = "none"
  /\ ~hdmi.bridge_is_on /\ ~hdmi.phy_enabled

\* A step of update_power that leaves the driver's view of the hardware
\* alone: setup did not run (no PHY init, no register write) and the PHY
\* was not disabled.
NoPhyCallNoWrite ==
  /\ last'.setup = "none"
  /\ link' = link /\ avi' = avi
  /\ hdmi'.phy_enabled = hdmi.phy_enabled

\* setup runs only in a step that takes bridge_is_on from false to true
SetupOnlyOnTransition ==
  (stage = "probed" /\ last'.setup # "none") =>
    (~hdmi.bridge_is_on /\ hdmi'.bridge_is_on)

\* C24 as stated: setup runs only on a transition of the bridge from off
\* to on, and an enable or force request (a request that does not set
\* disabled) arriving while the bridge is marked on performs no PHY call
\* and no register write.
C24_AsStated ==
  [][/\ SetupOnlyOnTransition
     /\ (stage = "probed" /\ hdmi.bridge_is_on /\ ~hdmi'.disabled)
          => NoPhyCallNoWrite]_vars

\* C24: setup runs only on a transition of the bridge from off to on, and
\* an enable or force request that resolves to on, arriving while the
\* bridge is marked on, leaves the bridge on and performs no PHY call and
\* no register write.
C24_SetupOnce ==
  [][/\ SetupOnlyOnTransition
     /\ (/\ stage = "probed" /\ hdmi.bridge_is_on /\ ~hdmi'.disabled
         /\ EffectiveForce(hdmi') # DRM_FORCE_OFF)
          => (NoPhyCallNoWrite /\ hdmi'.bridge_is_on)]_vars

\* a request that resolved to on found the bridge on, its PHY enabled, and
\* did nothing
C24_Witness ==
  /\ stage = "probed" /\ ~hdmi.disabled
  /\ hdmi.bridge_is_on /\ hdmi.phy_enabled
  /\ last.was_on /\ last.setup = "none"

====
